---- MODULE Spec2Model ----
(***************************************************************************)
(* A model of acoustics/generator.py: the coloured-noise routines white,   *)
(* pink, blue, brown and violet, the dispatcher noise and the cycling      *)
(* adapter noise_generator.                                                *)
(*                                                                         *)
(* Real numbers are kept symbolic.  A Gaussian variate is named by its     *)
(* position in the stream of the process-wide random source; a spectrum    *)
(* bin is a pair of variates together with the filter coefficient applied  *)
(* to it; a time sample is "the t-th output of the inverse transform of    *)
(* the filtered spectrum Y".  Lengths, indices, the order of the draws,    *)
(* the dispatch and the control flow are modelled exactly.                 *)
(***************************************************************************)
EXTENDS Integers, Sequences, FiniteSets, TLC

\* ------------------------------------------------------------------ bounds
\* Largest sample count N that is requested.
MaxN == 4
\* Requests range down to N = -NegN, to cover the degenerate sizes.
NegN == 4
\* Period of the modelled random stream (states 0 .. RngMod-1).
RngMod == 5
\* Largest number of elements pulled from one cycling adapter.
MaxYield == 7
\* Largest N a cycling adapter is created with.
GenMaxN == 3

\* ------------------------------------------------------------------ inputs
Colors == {"white", "pink", "blue", "brown", "violet"}
\* colour tags a caller may pass: the five recognised ones and two others
Tags == Colors \cup {"unknown", "White"}
Sizes == (0 - NegN) .. MaxN
RngStates == 0 .. (RngMod - 1)
GenIds == {"g1", "g2"}

VARIABLES
    rng,    \* state of the process-wide random source (np.random)
    last,   \* the most recent top-level call and everything it computed
    memo,   \* an earlier call, remembered for comparison with later ones
    gens    \* the cycling adapters (generator objects) created so far

vars == <<rng, last, memo, gens>>

\* ------------------------------------------------------------ numpy pieces
\* np.arange(n): 0, 1, ..., n-1 (empty for n <= 0)
arange(n) == [i \in 1 .. n |-> i - 1]

\* np.random.randn(n) from stream state s: n consecutive variates, the state
\* advanced by n; a negative n raises ValueError before any draw.
randn(n, s) ==
    IF n < 0
    THEN [ok |-> FALSE, vals |-> <<>>, rng |-> s]
    ELSE [ok |-> TRUE,
          vals |-> [i \in 1 .. n |-> (s + i - 1) % RngMod],
          rng |-> (s + n) % RngMod]

\* a + 1j * b, element-wise
complex(a, b) == [i \in 1 .. Len(a) |-> [re |-> a[i], im |-> b[i]]]

\* np.sqrt(v), element-wise: the coefficient sqrt(of)
sqrt(v) == [i \in 1 .. Len(v) |-> [of |-> v[i], root |-> TRUE]]
\* the integer array itself as coefficients
ident(v) == [i \in 1 .. Len(v) |-> [of |-> v[i], root |-> FALSE]]
\* the offset left out
plus1_forgotten(v) == v
\* v + 1, element-wise
plus1(v) == [i \in 1 .. Len(v) |-> v[i] + 1]

\* X / S and X * S, element-wise
divide(X, S) ==
    [i \in 1 .. Len(X) |-> [re |-> X[i].re, im |-> X[i].im, op |-> "div", c |-> S[i]]]
multiply(X, S) ==
    [i \in 1 .. Len(X) |-> [re |-> X[i].re, im |-> X[i].im, op |-> "mul", c |-> S[i]]]

\* length of irfft's output for a spectrum of m bins: n = 2*(m-1)
irfftLen(m) == 2 * (m - 1)

\* irfft(Y): raises ValueError when n < 1, else n real samples
irfft(Y) ==
    IF irfftLen(Len(Y)) < 1
    THEN [ok |-> FALSE, y |-> <<>>]
    ELSE [ok |-> TRUE,
          y |-> [t \in 1 .. irfftLen(Len(Y)) |->
                    [src |-> "irfft", t |-> t, Y |-> Y, z |-> 0, normalised |-> FALSE]]]

\* y[:-1]
dropLast(y) == IF Len(y) = 0 THEN y ELSE SubSeq(y, 1, Len(y) - 1)

\* acoustics.signal.normalise: rescales every sample, keeps length and order
normalise(y) == [i \in 1 .. Len(y) |-> [y[i] EXCEPT !.normalised = TRUE]]

\* ---------------------------------------------------------------- routines
\* What a routine reports: how it ended, the returned samples, the state it
\* leaves the random source in, and the intermediate values it computed.
Outcome(status, origin, out, s, half, X, S, Y, raw, dropped, normd) ==
    [status |-> status, origin |-> origin, out |-> out, rng |-> s,
     half |-> half, X |-> X, S |-> S, Y |-> Y, raw |-> raw,
     dropped |-> dropped, normalised |-> normd]

Raised(origin, s, half, X, S, Y) ==
    Outcome("ValueError", origin, <<>>, s, half, X, S, Y, <<>>, 0, FALSE)

\* a routine that hands back the block of the previous call for the same N
white_cached(N, s) ==
    LET r == randn(N, s) IN
    IF last.ran = "white" /\ last.N = N /\ last.res.status = "ok"
    THEN last.res
    ELSE IF ~r.ok
    THEN Raised("randn", s, 0, <<>>, <<>>, <<>>)
    ELSE Outcome("ok", "",
                 [i \in 1 .. N |-> [src |-> "randn", t |-> i, Y |-> <<>>,
                                    z |-> r.vals[i], normalised |-> FALSE]],
                 r.rng, 0, <<>>, <<>>, <<>>, <<>>, 0, FALSE)

white(N, s) ==
    LET r == randn(N, s) IN
    IF ~r.ok
    THEN Raised("randn", s, 0, <<>>, <<>>, <<>>)
    ELSE Outcome("ok", "",
                 [i \in 1 .. N |-> [src |-> "randn", t |-> i, Y |-> <<>>,
                                    z |-> r.vals[i], normalised |-> FALSE]],
                 r.rng, 0, <<>>, <<>>, <<>>, <<>>, 0, FALSE)

\* X = np.random.randn(n) + 1j * np.random.randn(n): the real parts are drawn
\* first, then the imaginary parts; a negative n raises in the first randn.
spectrum(n, s) ==
    LET r1 == randn(n, s)
        r2 == randn(n, r1.rng)
    IN  [ok |-> r1.ok, X |-> complex(r1.vals, r2.vals), rng |-> r2.rng]

\* no extra bin for odd N
bins_even(N, uneven) == (N \div 2) + 1
\* number of spectrum bins drawn for N samples: N//2 + 1 + uneven
bins(N, uneven) == (N \div 2) + 1 + uneven

\* the truncation left out
truncate_never(y, uneven) == y
\* if uneven: y = y[:-1]
truncate(y, uneven) == IF uneven # 0 THEN dropLast(y) ELSE y

pink(N, s) ==
    LET uneven == N % 2
        d == spectrum(bins(N, uneven), s)
        S == sqrt(plus1(arange(Len(d.X))))
        Y == divide(d.X, S)
        f == irfft(Y)
        y == truncate(f.y, uneven)
    IN  IF ~d.ok THEN Raised("randn", s, bins(N, uneven), <<>>, <<>>, <<>>)
        ELSE IF ~f.ok THEN Raised("irfft", d.rng, bins(N, uneven), d.X, S, Y)
        ELSE Outcome("ok", "", normalise(y), d.rng, bins(N, uneven), d.X, S, Y,
                     f.y, Len(f.y) - Len(y), TRUE)

\* blue without the final normalise
blue_raw(N, s) ==
    LET uneven == N % 2
        d == spectrum(bins(N, uneven), s)
        S == sqrt(arange(Len(d.X)))
        Y == multiply(d.X, S)
        f == irfft(Y)
        y == truncate(f.y, uneven)
    IN  IF ~d.ok THEN Raised("randn", s, bins(N, uneven), <<>>, <<>>, <<>>)
        ELSE IF ~f.ok THEN Raised("irfft", d.rng, bins(N, uneven), d.X, S, Y)
        ELSE Outcome("ok", "", y, d.rng, bins(N, uneven), d.X, S, Y,
                     f.y, Len(f.y) - Len(y), FALSE)

blue(N, s) ==
    LET uneven == N % 2
        d == spectrum(bins(N, uneven), s)
        S == sqrt(arange(Len(d.X)))
        Y == multiply(d.X, S)
        f == irfft(Y)
        y == truncate(f.y, uneven)
    IN  IF ~d.ok THEN Raised("randn", s, bins(N, uneven), <<>>, <<>>, <<>>)
        ELSE IF ~f.ok THEN Raised("irfft", d.rng, bins(N, uneven), d.X, S, Y)
        ELSE Outcome("ok", "", normalise(y), d.rng, bins(N, uneven), d.X, S, Y,
                     f.y, Len(f.y) - Len(y), TRUE)

brown(N, s) ==
    LET uneven == N % 2
        d == spectrum(bins(N, uneven), s)
        S == ident(plus1(arange(Len(d.X))))
        Y == divide(d.X, S)
        f == irfft(Y)
        y == truncate(f.y, uneven)
    IN  IF ~d.ok THEN Raised("randn", s, bins(N, uneven), <<>>, <<>>, <<>>)
        ELSE IF ~f.ok THEN Raised("irfft", d.rng, bins(N, uneven), d.X, S, Y)
        ELSE Outcome("ok", "", normalise(y), d.rng, bins(N, uneven), d.X, S, Y,
                     f.y, Len(f.y) - Len(y), TRUE)

violet(N, s) ==
    LET uneven == N % 2
        d == spectrum(bins(N, uneven), s)
        S == ident(arange(Len(d.X)))
        Y == multiply(d.X, S)
        f == irfft(Y)
        y == truncate(f.y, uneven)
    IN  IF ~d.ok THEN Raised("randn", s, bins(N, uneven), <<>>, <<>>, <<>>)
        ELSE IF ~f.ok THEN Raised("irfft", d.rng, bins(N, uneven), d.X, S, Y)
        ELSE Outcome("ok", "", normalise(y), d.rng, bins(N, uneven), d.X, S, Y,
                     f.y, Len(f.y) - Len(y), TRUE)

\* the name-to-routine table
_noise_generators ==
    [white |-> "white", pink |-> "pink", blue |-> "blue",
     brown |-> "brown", violet |-> "violet"]

call(f, N, s) ==
    CASE f = "white" -> white(N, s)
      [] f = "pink" -> pink(N, s)
      [] f = "blue" -> blue(N, s)
      [] f = "brown" -> brown(N, s)
      [] f = "violet" -> violet(N, s)

\* a lookup that falls back to white for a missing key
noise_default(N, color, s) ==
    IF color \in DOMAIN _noise_generators
    THEN [ran |-> _noise_generators[color], res |-> call(_noise_generators[color], N, s)]
    ELSE [ran |-> "white", res |-> white(N, s)]

\* noise(N, color): the table lookup comes first; a missing key is reported
\* as ValueError("Incorrect color.") and no routine is entered.
noise(N, color, s) ==
    IF color \in DOMAIN _noise_generators
    THEN [ran |-> _noise_generators[color], res |-> call(_noise_generators[color], N, s)]
    ELSE [ran |-> "", res |-> Raised("noise", s, 0, <<>>, <<>>, <<>>)]

\* ------------------------------------------------------------- direct calls
NoOutcome == Outcome("none", "", <<>>, 0, 0, <<>>, <<>>, <<>>, <<>>, 0, FALSE)
NoCall == [via |-> "none", N |-> 0, color |-> "", rng0 |-> 0, ran |-> "", res |-> NoOutcome]

\* a caller evaluates noise(N, color)
Noise(N, color) ==
    LET r == noise(N, color, rng) IN
    /\ last' = [via |-> "noise", N |-> N, color |-> color, rng0 |-> rng,
                ran |-> r.ran, res |-> r.res]
    /\ rng' = r.res.rng
    /\ UNCHANGED gens

\* a caller evaluates white(N), pink(N), blue(N), brown(N) or violet(N)
Direct(N, color) ==
    LET res == call(color, N, rng) IN
    /\ last' = [via |-> "direct", N |-> N, color |-> color, rng0 |-> rng,
                ran |-> color, res |-> res]
    /\ rng' = res.rng
    /\ UNCHANGED gens

\* ---------------------------------------------------------- cycling adapter
GenSizes == {n \in Sizes : n >= 0 - 1 /\ n <= GenMaxN}

\* itertools.cycle(block): the iterator over block (pos elements consumed,
\* live until it is found exhausted), the saved copy and the replay index
cycle(block) == [block |-> block, pos |-> 0, live |-> TRUE, saved |-> <<>>, index |-> 0]

\* a single pass over the block, with no replay
cycleNext_once(c) ==
    IF c.live /\ c.pos < Len(c.block)
    THEN [stop |-> FALSE, item |-> c.block[c.pos + 1],
          c |-> [c EXCEPT !.pos = c.pos + 1,
                          !.saved = Append(c.saved, c.block[c.pos + 1])]]
    ELSE [stop |-> TRUE, item |-> 0, c |-> [c EXCEPT !.live = FALSE]]

\* one __next__ of itertools.cycle: the next element of the underlying
\* iterator, saved as it passes; once that is exhausted, the saved elements
\* in order, again and again; StopIteration when nothing was saved
cycleNext(c) ==
    IF c.live /\ c.pos < Len(c.block)
    THEN [stop |-> FALSE, item |-> c.block[c.pos + 1],
          c |-> [c EXCEPT !.pos = c.pos + 1,
                          !.saved = Append(c.saved, c.block[c.pos + 1])]]
    ELSE IF Len(c.saved) = 0
    THEN [stop |-> TRUE, item |-> 0, c |-> [c EXCEPT !.live = FALSE]]
    ELSE [stop |-> FALSE, item |-> c.saved[c.index + 1],
          c |-> [c EXCEPT !.live = FALSE,
                          !.index = IF c.index + 1 >= Len(c.saved) THEN 0 ELSE c.index + 1]]

NoCycle == [block |-> <<>>, pos |-> 0, live |-> FALSE, saved |-> <<>>, index |-> 0]

\* a generator object: pc is "free" (not created), "created" (body not yet
\* entered), "running" (suspended at the yield) or "done" (returned or raised)
NoGen == [pc |-> "free", N |-> 0, color |-> "", c |-> NoCycle, block |-> <<>>,
          hist |-> <<>>, raised |-> ""]

\* an ordinary function that evaluates noise(N, color) when it is called
Create_eager(g, N, color) ==
    LET r == noise(N, color, rng) IN
    /\ gens[g].pc = "free"
    /\ gens' = [gens EXCEPT ![g] = [NoGen EXCEPT !.pc = "created", !.N = N, !.color = color,
                                                  !.block = r.res.out,
                                                  !.raised = IF r.res.status = "ok" THEN ""
                                                             ELSE r.res.status]]
    /\ rng' = r.res.rng
    /\ UNCHANGED <<last, memo>>

\* noise_generator(N, color): calling a generator function only builds the
\* generator object; its body has not started
Create(g, N, color) ==
    /\ gens[g].pc = "free"
    /\ gens' = [gens EXCEPT ![g] = [NoGen EXCEPT !.pc = "created", !.N = N, !.color = color]]
    /\ UNCHANGED <<rng, last, memo>>

\* the loop of the body: pull one element from the cycle and yield it, or
\* return when the cycle stops
pull(gen, c) ==
    LET n == cycleNext(c) IN
    IF n.stop
    THEN [gen EXCEPT !.pc = "done", !.c = n.c, !.raised = "StopIteration"]
    ELSE [gen EXCEPT !.pc = "running", !.c = n.c, !.hist = Append(gen.hist, n.item),
                     !.raised = ""]

\* the body is entered: noise(N, color) is evaluated and handed to cycle
enter(gen, s) ==
    LET r == noise(gen.N, gen.color, s) IN
    IF r.res.status # "ok"
    THEN [rng |-> r.res.rng, gen |-> [gen EXCEPT !.pc = "done", !.raised = r.res.status]]
    ELSE [rng |-> r.res.rng,
          gen |-> pull([gen EXCEPT !.block = r.res.out], cycle(r.res.out))]

\* next(g)
First(g) ==
    /\ gens[g].pc = "created"
    /\ gens' = [gens EXCEPT ![g] = enter(gens[g], rng).gen]
    /\ rng' = enter(gens[g], rng).rng
    /\ UNCHANGED <<last, memo>>

\* a fresh block for every period instead of a replay of the first one
Resume_fresh(g) ==
    LET gen == gens[g]
        r == noise(gen.N, gen.color, rng)
    IN  /\ gen.pc = "running"
        /\ Len(gen.hist) < MaxYield
        /\ IF gen.c.pos >= Len(gen.block)
           THEN /\ gens' = [gens EXCEPT ![g] = pull([gen EXCEPT !.block = r.res.out],
                                                     cycle(r.res.out))]
                /\ rng' = r.res.rng
           ELSE /\ gens' = [gens EXCEPT ![g] = pull(gen, gen.c)]
                /\ rng' = rng
        /\ UNCHANGED <<last, memo>>

Resume(g) ==
    /\ gens[g].pc = "running"
    /\ Len(gens[g].hist) < MaxYield
    /\ gens' = [gens EXCEPT ![g] = pull(gens[g], gens[g].c)]
    /\ UNCHANGED <<rng, last, memo>>

\* next(g) on a generator that has returned or raised: StopIteration
Finished(g) ==
    /\ gens[g].pc = "done"
    /\ gens' = [gens EXCEPT ![g].raised = "StopIteration"]
    /\ UNCHANGED <<rng, last, memo>>

\* ---------------------------------------------------------- specifications
Init ==
    /\ rng \in RngStates
    /\ last = NoCall
    /\ memo = NoCall
    /\ gens = [g \in GenIds |-> NoGen]

Next ==
    \/ \E N \in Sizes, color \in Tags : Noise(N, color) /\ UNCHANGED memo
    \/ \E N \in Sizes, color \in Colors : Direct(N, color) /\ UNCHANGED memo

Spec == Init /\ [][Next]_vars

\* A reproducibility check: the first call is recorded in memo; afterwards the
\* same call is repeated, with calls of the routines for one sample in between
\* that move the random source on by other amounts.
sameCall(N, color, via) == memo.N = N /\ memo.color = color /\ memo.via = via

NextDet ==
    \/ \E N \in Sizes, color \in Tags :
          /\ last = NoCall
          /\ Noise(N, color)
          /\ memo' = last'
    \/ \E N \in Sizes, color \in Colors :
          /\ last = NoCall
          /\ Direct(N, color)
          /\ memo' = last'
    \/ \E N \in Sizes, color \in Tags :
          /\ last # NoCall
          /\ sameCall(N, color, "noise")
          /\ Noise(N, color)
          /\ UNCHANGED memo
    \/ \E N \in Sizes, color \in Colors :
          /\ last # NoCall
          /\ sameCall(N, color, "direct")
          /\ Direct(N, color)
          /\ UNCHANGED memo
    \/ \E color \in Colors :
          /\ last # NoCall
          /\ Direct(1, color)
          /\ UNCHANGED memo

SpecDet == Init /\ [][NextDet]_vars

NextGen ==
    \/ \E g \in GenIds, N \in GenSizes, color \in Tags : Create(g, N, color)
    \/ \E g \in GenIds : First(g)
    \/ \E g \in GenIds : Resume(g)
    \/ \E g \in GenIds : Finished(g)

SpecGen == Init /\ [][NextGen]_vars

\* ------------------------------------------------------------------ claims
Coloured == {"pink", "blue", "brown", "violet"}
Called == last.via # "none"
ViaNoise == last.via = "noise"
Odd(n) == n % 2 = 1

\* C1: for every N >= 1 and every supported colour, the call (through noise
\* or through the routine itself) succeeds and returns exactly N samples,
\* for even and for odd N alike.
C1_ExactlyNSamples ==
    (Called /\ last.N >= 1 /\ last.color \in Colors)
        => (last.res.status = "ok" /\ Len(last.res.out) = last.N)

\* pink noise of one sample: two bins, two raw samples, one dropped
C1_Witness ==
    /\ ViaNoise /\ last.color = "pink" /\ last.N = 1
    /\ last.res.status = "ok" /\ Len(last.res.raw) = 2 /\ Len(last.res.out) = 1

\* C2: noise with a colour that is not one of the five tags raises the
\* ValueError of noise itself; no routine is entered, nothing is returned and
\* the random source is left where it was.
C2_UnknownColourRejected ==
    (ViaNoise /\ last.color \notin Colors)
        => /\ last.res.status = "ValueError"
           /\ last.res.origin = "noise"
           /\ last.ran = ""
           /\ last.res.out = <<>>
           /\ last.res.rng = last.rng0
           /\ rng = last.rng0

C2_Witness ==
    /\ ViaNoise /\ last.color = "unknown" /\ last.N = 3
    /\ last.res.status = "ValueError" /\ rng = last.rng0

C5_DegenerateSizeRejected ==
    (ViaNoise /\ last.N < 1 /\ last.color \in Colors)
        => (last.res.status = "ValueError" /\ last.res.origin = "noise")

Coef(color, i) ==
    CASE color = "pink" -> [of |-> i + 1, root |-> TRUE]
      [] color = "blue" -> [of |-> i, root |-> TRUE]
      [] color = "brown" -> [of |-> i + 1, root |-> FALSE]
      [] color = "violet" -> [of |-> i, root |-> FALSE]
Oper(color) == IF color \in {"pink", "brown"} THEN "div" ELSE "mul"

C8_FilterTable ==
    (Called /\ last.ran \in Coloured /\ last.res.origin # "randn")
        => LET r == last.res IN
           /\ Len(r.S) = r.half /\ Len(r.X) = r.half /\ Len(r.Y) = r.half
           /\ \A b \in 1 .. r.half :
                 /\ r.S[b] = Coef(last.ran, b - 1)
                 /\ r.Y[b] = [re |-> r.X[b].re, im |-> r.X[b].im,
                              op |-> Oper(last.ran), c |-> r.S[b]]
                 /\ r.Y[b].op = "div" => r.Y[b].c.of >= 1
           /\ (last.ran \in {"blue", "violet"} /\ r.half >= 1)
                 => (r.Y[1].op = "mul" /\ r.Y[1].c.of = 0)

C8_Witness ==
    /\ Called /\ last.ran = "brown" /\ last.res.status = "ok" /\ last.res.half = 3
    /\ last.res.Y[1].op = "div" /\ last.res.Y[1].c.of = 1 /\ last.res.Y[3].c.of = 3

\* C9: for N >= 1 a coloured routine draws N//2+1 bins for even N and N//2+2
\* for odd N; the inverse transform returns 2*(half-1) samples, N for even N
\* and N+1 for odd N; one final sample is dropped exactly when N is odd.
C9_ParityLengths ==
    (Called /\ last.ran \in Coloured /\ last.N >= 1)
        => LET r == last.res
               n == last.N
           IN  /\ r.half = IF Odd(n) THEN (n \div 2) + 2 ELSE (n \div 2) + 1
               /\ Len(r.X) = r.half
               /\ Len(r.raw) = 2 * (r.half - 1)
               /\ Len(r.raw) = IF Odd(n) THEN n + 1 ELSE n
               /\ r.dropped = IF Odd(n) THEN 1 ELSE 0
               /\ r.status = "ok"

C9_Witness ==
    /\ Called /\ last.ran = "violet" /\ last.N = 3
    /\ last.res.half = 3 /\ Len(last.res.raw) = 4 /\ last.res.dropped = 1

\* C3: an adapter for N >= 1 and a supported colour yields, at every global
\* position k, the element k mod N of its one block; the elements at
\* positions k and k+N are equal; and it always has a next element.
C3_Cycles ==
    \A g \in GenIds :
        LET gen == gens[g] IN
        (gen.N >= 1 /\ gen.color \in Colors /\ gen.pc \in {"running", "done"})
            => /\ gen.pc = "running"
               /\ Len(gen.block) = gen.N
               /\ \A k \in 0 .. (Len(gen.hist) - 1) :
                     gen.hist[k + 1] = gen.block[(k % gen.N) + 1]
               /\ \A k \in 0 .. (Len(gen.hist) - 1) :
                     k + gen.N < Len(gen.hist) => gen.hist[k + 1] = gen.hist[k + gen.N + 1]
               /\ ~cycleNext(gen.c).stop

\* a block of three samples, pulled seven times: two full periods and one more
C3_Witness ==
    \E g \in GenIds :
        /\ gens[g].pc = "running" /\ gens[g].N = 3 /\ gens[g].color = "pink"
        /\ Len(gens[g].hist) = 7
        /\ gens[g].hist[7] = gens[g].hist[1] /\ gens[g].hist[1] # gens[g].hist[2]

\* C7: once an adapter has yielded its first element, a further element
\* leaves the random source and the block as they are, and the element
\* yielded is one of the block's.
C7_OneBlockOnly ==
    [][\A g \in GenIds :
          (gens[g].pc = "running" /\ gens'[g] # gens[g])
              => /\ rng' = rng
                 /\ gens'[g].block = gens[g].block
                 /\ gens'[g].c.block = gens[g].c.block
                 /\ gens'[g].pc = "running"
                 /\ Len(gens'[g].hist) = Len(gens[g].hist) + 1
                 /\ \E i \in 1 .. Len(gens[g].block) :
                       gens'[g].hist[Len(gens'[g].hist)] = gens[g].block[i]]_vars

\* an adapter in its third period
C7_Witness ==
    \E g \in GenIds :
        /\ gens[g].pc = "running" /\ gens[g].N = 2 /\ gens[g].color = "white"
        /\ Len(gens[g].hist) = 5 /\ gens[g].c.pos = 2 /\ ~gens[g].c.live

\* C10: creating an adapter changes nothing but the new generator object: no
\* error, no draw, no block.  The block is generated, the random source
\* moved and an unrecognised colour reported when the first element is
\* requested, from the state the source is in at that moment.
C10_LazyCreation ==
    [][\A g \in GenIds :
          /\ (gens[g].pc = "free" /\ gens'[g] # gens[g])
                => /\ gens'[g].pc = "created"
                   /\ gens'[g].raised = ""
                   /\ gens'[g].block = <<>>
                   /\ gens'[g].hist = <<>>
                   /\ rng' = rng
          /\ (gens[g].pc = "created" /\ gens'[g] # gens[g])
                => LET r == noise(gens[g].N, gens[g].color, rng) IN
                   /\ rng' = r.res.rng
                   /\ gens[g].color \notin Colors
                         => /\ gens'[g].pc = "done"
                            /\ gens'[g].raised = "ValueError"
                            /\ rng' = rng
                   /\ r.res.status = "ok" => gens'[g].block = r.res.out]_vars

\* two adapters created alike, each with a block of its own
C10_Witness ==
    /\ gens["g1"].pc = "running" /\ gens["g2"].pc = "running"
    /\ gens["g1"].N = 2 /\ gens["g2"].N = 2
    /\ gens["g1"].color = "pink" /\ gens["g2"].color = "pink"
    /\ gens["g1"].block # gens["g2"].block

====
